---- MODULE Spec2Model ----
(***************************************************************************)
(* Model of script.js: the Apps Script web app over the sheet "graph".     *)
(* The sheet is the sequence of its rows up to the last row with content   *)
(* (what getDataRange/getLastRow see); every handler is one atomic action. *)
(***************************************************************************)
EXTENDS Integers, Sequences, FiniteSets, TLC

VARIABLES
  exists,   \* whether the spreadsheet has a sheet named "graph"
  rows,     \* the rows of the sheet, row 1 first
  created,  \* appends made so far (bounds the exploration)
  lastOp,   \* the function that ran last
  req,      \* its argument
  resp,     \* what it returned
  pc,       \* overlapping doPost executions: the host call each is about to make
  local,    \* their local variables data and lastRow
  presp     \* what each returned

vars == <<exists, rows, created, lastOp, req, resp, pc, local, presp>>

(* ---------------------------- bounds ---------------------------------- *)
MaxInitRows == 2
MaxCreates == 2

(* ------------------------- JavaScript values -------------------------- *)
Str(s) == [t |-> "str", s |-> s, n |-> 0]
Num(n) == [t |-> "num", s |-> "", n |-> n]
Undef == [t |-> "undef", s |-> "", n |-> 0]
Null == [t |-> "null", s |-> "", n |-> 0]
NaN == [t |-> "nan", s |-> "", n |-> 0]
\* a function or object value, s is what String() makes of it
Fn(src) == [t |-> "fn", s |-> src, n |-> 0]

\* ToBoolean: "", 0, NaN, null and undefined are falsy.
Truthy(v) ==
  CASE v.t = "str" -> v.s # ""
    [] v.t = "num" -> v.n # 0
    [] v.t = "fn" -> TRUE
    [] OTHER -> FALSE

\* a || b
Or(a, b) == IF Truthy(a) THEN a ELSE b

\* parseFloat: numbers pass through, a string yields its longest numeric
\* prefix, anything else is NaN.
NumericPrefix(s) ==
  CASE s = "8000" -> Num(8000)
    [] s = "12abc" -> Num(12)
    [] OTHER -> NaN

parseFloat(v) ==
  CASE v.t = "num" -> v
    [] v.t = "str" -> NumericPrefix(v.s)
    [] OTHER -> NaN

\* String(n).padStart(3, '0')
Pad3(n) ==
  LET s == ToString(n)
  IN  IF n >= 0
        THEN (IF n < 10 THEN "00" \o s ELSE IF n < 100 THEN "0" \o s ELSE s)
        ELSE (IF n > -10 THEN "0" \o s ELSE s)

\* new Date().toISOString().split('T')[0]: the day the requests are made on
CurrentDate == "2024-03-01"

\* new Date(v).getTime() in seconds since the epoch; NaN for an invalid date
DateTime(v) ==
  CASE v.t = "num" -> Num(v.n \div 1000)
    [] v.t = "str" ->
         (CASE v.s = "2024-01-15" -> Num(1705276800)
            [] v.s = "2024-01-15T10:30:00Z" -> Num(1705314600)
            [] v.s = "2024-01-20" -> Num(1705708800)
            [] v.s = "2024-01-25" -> Num(1706140800)
            [] v.s = "2024-02-01" -> Num(1706745600)
            [] v.s = "2024-02-05" -> Num(1707091200)
            [] v.s = "2024-03-01" -> Num(1709251200)
            [] OTHER -> NaN)
    [] OTHER -> NaN

\* new Date(v).toISOString().split('T')[0]; Null stands for the RangeError
\* toISOString raises on an invalid date.
IsoDay(v) ==
  CASE v.t = "num" ->
         (IF v.n >= 0 /\ v.n < 86400000 THEN Str("1970-01-01")
          ELSE IF v.n < 0 /\ v.n >= -86400000 THEN Str("1969-12-31")
          ELSE Null)
    [] v.t = "str" ->
         (CASE v.s = "2024-01-15" -> Str("2024-01-15")
            [] v.s = "2024-01-15T10:30:00Z" -> Str("2024-01-15")
            [] v.s = "2024-01-20" -> Str("2024-01-20")
            [] v.s = "2024-01-25" -> Str("2024-01-25")
            [] v.s = "2024-02-01" -> Str("2024-02-01")
            [] v.s = "2024-02-05" -> Str("2024-02-05")
            [] v.s = "2024-03-01" -> Str("2024-03-01")
            [] OTHER -> Null)
    [] OTHER -> Null

formatDate(dateValue) ==
  IF ~Truthy(dateValue) THEN Null ELSE IsoDay(dateValue)

(* ------------------------------ the sheet ----------------------------- *)
\* row[k] of a JavaScript array, 0-based; undefined beyond the row's width
Cell(row, k) == IF k + 1 <= Len(row) THEN row[k + 1] ELSE Undef

\* sheet.getLastRow()
getLastRow(rs) == Len(rs)

\* sheet.getDataRange().getValues(): an empty sheet yields [[""]]
getValues(rs) == IF rs = <<>> THEN << <<Str("")>> >> ELSE rs

\* the header row not skipped
Slice1_KeepHeader(data) == data

\* data.slice(1)
Slice1(data) == SubSeq(data, 2, Len(data))

\* the row inserted above the first row
appendRow_AtTop(rs, rowData) == <<rowData>> \o rs

\* sheet.appendRow(rowData)
appendRow(rs, rowData) == Append(rs, rowData)

headers ==
  <<Str("Order ID"), Str("Project ID"), Str("Project Name"), Str("Project Type"),
    Str("Region"), Str("Price"), Str("Date")>>

sampleData ==
  << <<Str("ORD-001"), Str("PRJ-001"), Str("E-commerce Website"), Str("Development"),
       Str("North America"), Num(15000), Str("2024-01-15")>>,
     <<Str("ORD-002"), Str("PRJ-002"), Str("Brand Identity Design"), Str("Design"),
       Str("Europe"), Num(8000), Str("2024-01-20")>>,
     <<Str("ORD-003"), Str("PRJ-003"), Str("Digital Marketing Campaign"), Str("Marketing"),
       Str("Asia Pacific"), Num(12000), Str("2024-01-25")>>,
     <<Str("ORD-004"), Str("PRJ-004"), Str("Mobile App Development"), Str("Development"),
       Str("North America"), Num(25000), Str("2024-02-01")>>,
     <<Str("ORD-005"), Str("PRJ-005"), Str("UI/UX Redesign"), Str("Design"),
       Str("Europe"), Num(9500), Str("2024-02-05")>> >>

(* ------------------------------ responses ----------------------------- *)
EmptyObject == [k \in {} |-> Undef]

NoStats ==
  [totalOrders |-> 0, totalRevenue |-> 0, avgPrice |-> [num |-> 0, den |-> 1],
   projectTypeCounts |-> EmptyObject, regionCounts |-> EmptyObject]

NoResp ==
  [kind |-> "none", msg |-> "", list |-> <<>>, orderId |-> Undef,
   projectId |-> Undef, stats |-> NoStats, ret |-> <<>>]

\* createJsonResponse(data) for an array payload
createJsonResponse(list) == [NoResp EXCEPT !.kind = "list", !.list = list]

\* createJsonResponse({success: true, message, orderId, projectId})
createSuccessResponse(orderId, projectId) ==
  [NoResp EXCEPT !.kind = "success", !.msg = "Data added successfully",
                 !.orderId = orderId, !.projectId = projectId]

createErrorResponse(message) == [NoResp EXCEPT !.kind = "error", !.msg = message]

\* an exception leaving the function
Thrown(message) == [NoResp EXCEPT !.kind = "thrown", !.msg = message]

\* a function returning normally without a web response
Returned(kind) == [NoResp EXCEPT !.kind = kind]

NoReq ==
  [parse |-> "none", projectName |-> Undef, projectType |-> Undef,
   region |-> Undef, price |-> Undef, startDate |-> Undef, endDate |-> Undef,
   fault |-> "none"]

\* the invocation as the state records it: the argument, and the host call
\* that throws during it, if one does
Invocation(arg, fault) == [arg EXCEPT !.fault = fault]

HostError == "Service error"

(* -------------------------------- doGet ------------------------------- *)
\* the callback numbering the default ids from 0
rowToRecord_ZeroBased(row, index) ==
  [orderId |-> Or(Cell(row, 0), Str("ORD-" \o Pad3(index))),
   projectId |-> Or(Cell(row, 1), Str("PRJ-" \o Pad3(index))),
   projectName |-> Or(Cell(row, 2), Str("Unnamed Project")),
   projectType |-> Or(Cell(row, 3), Str("Other")),
   region |-> Or(Cell(row, 4), Str("Unknown")),
   price |-> Or(parseFloat(Cell(row, 5)), Num(0)),
   date |-> Or(formatDate(Cell(row, 6)), Str(CurrentDate))]

\* the callback of rows.map, index 0-based
rowToRecord(row, index) ==
  [orderId |-> Or(Cell(row, 0), Str("ORD-" \o Pad3(index + 1))),
   projectId |-> Or(Cell(row, 1), Str("PRJ-" \o Pad3(index + 1))),
   projectName |-> Or(Cell(row, 2), Str("Unnamed Project")),
   projectType |-> Or(Cell(row, 3), Str("Other")),
   region |-> Or(Cell(row, 4), Str("Unknown")),
   price |-> Or(parseFloat(Cell(row, 5)), Num(0)),
   date |-> Or(formatDate(Cell(row, 6)), Str(CurrentDate))]

doGetResult(ex, rs, fault) ==
  IF fault THEN createErrorResponse("Failed to fetch data: " \o HostError)
  ELSE IF ~ex THEN
    createErrorResponse("Sheet \"graph\" not found. Please create a sheet named \"graph\" with the required columns.")
  ELSE LET data == getValues(rs)
       IN  IF Len(data) <= 1 THEN createJsonResponse(<<>>)
           ELSE LET rws == Slice1(data)
                IN  createJsonResponse([i \in 1..Len(rws) |-> rowToRecord(rws[i], i - 1)])

doGet ==
  \E fault \in BOOLEAN :
    /\ resp' = doGetResult(exists, rows, fault)
    /\ lastOp' = "doGet"
    /\ req' = Invocation(NoReq, IF fault THEN "host" ELSE "none")
    /\ UNCHANGED <<exists, rows, created, pc, local, presp>>

(* -------------------------------- doPost ------------------------------ *)
Body(name, type, region, price) ==
  [NoReq EXCEPT !.parse = "object", !.projectName = name, !.projectType = type,
                !.region = region, !.price = price]

ValidBodies ==
  { Body(Str("Site"), Str("Development"), Str("NA"), Num(15000)),
    Body(Str("App"), Str("constructor"), Str("EU"), Str("abc")) }

InvalidBodies ==
  { Body(Undef, Str("Design"), Str("EU"), Num(8000)),
    Body(Str("Logo"), Str(""), Str("EU"), Num(8000)),
    Body(Str("Logo"), Str("Design"), Undef, Num(8000)),
    Body(Str("Logo"), Str("Design"), Str("EU"), Num(0)),
    Body(Str("Logo"), Str("Design"), Str("EU"), Undef),
    Body(Undef, Undef, Undef, Undef) }

\* e.postData.contents: JSON objects, the JSON text null, and text that is
\* not JSON
BodyPool ==
  ValidBodies \cup InvalidBodies \cup
  { [NoReq EXCEPT !.parse = "null"], [NoReq EXCEPT !.parse = "syntax"] }

\* the validation without its price operand
MissingRequired_NoPrice(data) ==
  \/ ~Truthy(data.projectName)
  \/ ~Truthy(data.projectType)
  \/ ~Truthy(data.region)

\* !data.projectName || !data.projectType || !data.region || !data.price
MissingRequired(data) ==
  \/ ~Truthy(data.projectName)
  \/ ~Truthy(data.projectType)
  \/ ~Truthy(data.region)
  \/ ~Truthy(data.price)

\* the id made from the number of data rows instead of getLastRow()
generateId_DataRows(prefix, lastRow) == Str(prefix \o "-" \o Pad3(lastRow - 1))

\* `${prefix}-${String(lastRow).padStart(3, '0')}`
generateId(prefix, lastRow) == Str(prefix \o "-" \o Pad3(lastRow))

\* rowData
rowData(data, lastRow) ==
  <<generateId("ORD", lastRow), generateId("PRJ", lastRow), data.projectName,
    data.projectType, data.region, data.price, Str(CurrentDate)>>

\* the catch block rethrowing
doPostCatch_Rethrow(message) == Thrown(message)

\* the catch block of doPost
doPostCatch(message) == createErrorResponse("Failed to add data: " \o message)

\* the outcome of doPost: the response and the rows of the sheet afterwards
doPostResult(ex, rs, body, fault) ==
  IF body.parse = "syntax" THEN
    [resp |-> doPostCatch("Unexpected token in JSON"), rows |-> rs]
  ELSE IF body.parse = "null" THEN
    [resp |-> doPostCatch("Cannot read properties of null"), rows |-> rs]
  ELSE IF MissingRequired(body) THEN
    [resp |-> createErrorResponse("Missing required fields"), rows |-> rs]
  ELSE IF fault THEN
    [resp |-> doPostCatch(HostError), rows |-> rs]
  ELSE IF ~ex THEN
    [resp |-> createErrorResponse("Sheet \"graph\" not found. Please create a sheet named \"graph\" first."),
     rows |-> rs]
  ELSE LET lastRow == getLastRow(rs)
       IN  [resp |-> createSuccessResponse(generateId("ORD", lastRow), generateId("PRJ", lastRow)),
            rows |-> appendRow(rs, rowData(body, lastRow))]

\* whether doPost gets as far as its first host call
ReachesHost(body) == body.parse = "object" /\ ~MissingRequired(body)

doPost ==
  \E body \in BodyPool, fault \in BOOLEAN :
    LET r == doPostResult(exists, rows, body, fault)
    IN  /\ fault => ReachesHost(body)
        /\ r.rows # rows => created < MaxCreates
        /\ resp' = r.resp
        /\ rows' = r.rows
        /\ created' = IF r.rows # rows THEN created + 1 ELSE created
        /\ lastOp' = "doPost"
        /\ req' = Invocation(body, IF fault THEN "host" ELSE "none")
        /\ UNCHANGED <<exists, pc, local, presp>>

(* ------------------------------ setupSheet ---------------------------- *)
\* sheet.getRange(startRow, 1, values.length, width).setValues(values)
setValues(rs, startRow, values) ==
  LET n == IF Len(rs) > startRow + Len(values) - 1 THEN Len(rs)
           ELSE startRow + Len(values) - 1
  IN  [i \in 1..n |->
         IF i >= startRow /\ i < startRow + Len(values) THEN values[i - startRow + 1]
         ELSE IF i <= Len(rs) THEN rs[i]
         ELSE [j \in 1..7 |-> Str("")]]

\* the emptiness test taking a lone header row for an empty sheet
IsEmptySheet_HeaderOnly(lastRow) == lastRow <= 1

\* sheet.getLastRow() === 0
IsEmptySheet(lastRow) == lastRow = 0

SetupFaults == {"none", "getSheetByName", "getLastRow", "setHeaders", "setSample"}

\* the outcome of setupSheet when the host call named by fault throws
setupSheetResult(ex, rs, fault) ==
  IF fault = "getSheetByName" THEN
    [resp |-> Thrown(HostError), exists |-> ex, rows |-> rs]
  ELSE IF fault = "getLastRow" THEN
    [resp |-> Thrown(HostError), exists |-> TRUE, rows |-> rs]
  ELSE IF IsEmptySheet(getLastRow(rs)) THEN
    IF fault = "setHeaders" THEN
      [resp |-> Thrown(HostError), exists |-> TRUE, rows |-> rs]
    ELSE IF fault = "setSample" THEN
      [resp |-> Thrown(HostError), exists |-> TRUE,
       rows |-> setValues(rs, 1, <<headers>>)]
    ELSE
      [resp |-> Returned("void"), exists |-> TRUE,
       rows |-> setValues(setValues(rs, 1, <<headers>>), 2, sampleData)]
  ELSE [resp |-> Returned("void"), exists |-> TRUE, rows |-> rs]

setupSheet ==
  \E fault \in SetupFaults :
    LET r == setupSheetResult(exists, rows, fault)
    IN  /\ resp' = r.resp
        /\ exists' = r.exists
        /\ rows' = r.rows
        /\ lastOp' = "setupSheet"
        /\ req' = Invocation(NoReq, fault)
        /\ UNCHANGED <<created, pc, local, presp>>

(* ---------------------------- getDataByFilter ------------------------ *)
Criteria(type, region, startDate, endDate) ==
  [NoReq EXCEPT !.parse = "criteria", !.projectType = type, !.region = region,
                !.startDate = startDate, !.endDate = endDate]

\* the criteria argument: an object with optional keys, or no argument
CriteriaPool ==
  { Criteria(Undef, Undef, Undef, Undef),
    Criteria(Undef, Str("EU"), Str("2024-01-15"), Undef),
    Criteria(Str("Development"), Undef, Str("2024-01-15"), Str("2024-03-01")),
    [NoReq EXCEPT !.parse = "undefined"] }

\* a < b on two Date objects: false when either is an invalid date
DateLess(a, b) == a.t = "num" /\ b.t = "num" /\ a.n < b.n

\* the callback of rows.filter
filterRow(row, criteria) ==
  IF Truthy(criteria.projectType) /\ Cell(row, 3) # criteria.projectType THEN FALSE
  ELSE IF Truthy(criteria.region) /\ Cell(row, 4) # criteria.region THEN FALSE
  ELSE IF Truthy(criteria.startDate) /\ Truthy(criteria.endDate) THEN
    LET rowDate == DateTime(Cell(row, 6))
        startDate == DateTime(criteria.startDate)
        endDate == DateTime(criteria.endDate)
    IN  ~(DateLess(rowDate, startDate) \/ DateLess(endDate, rowDate))
  ELSE TRUE

\* rows.filter(callback)
RECURSIVE FilterSeq(_, _)
FilterSeq(rws, criteria) ==
  IF rws = <<>> THEN <<>>
  ELSE IF filterRow(Head(rws), criteria)
         THEN <<Head(rws)>> \o FilterSeq(Tail(rws), criteria)
         ELSE FilterSeq(Tail(rws), criteria)

getDataByFilterResult(ex, rs, criteria, fault) ==
  IF fault THEN Thrown(HostError)
  ELSE IF ~ex THEN Returned("rows")
  ELSE LET rws == Slice1(getValues(rs))
       IN  IF criteria.parse = "undefined" /\ rws # <<>>
             THEN Thrown("Cannot read properties of undefined")
             ELSE [Returned("rows") EXCEPT !.ret = FilterSeq(rws, criteria)]

getDataByFilter ==
  \E criteria \in CriteriaPool, fault \in BOOLEAN :
    /\ resp' = getDataByFilterResult(exists, rows, criteria, fault)
    /\ lastOp' = "getDataByFilter"
    /\ req' = Invocation(criteria, IF fault THEN "host" ELSE "none")
    /\ UNCHANGED <<exists, rows, created, pc, local, presp>>

(* ----------------------------- getStatistics -------------------------- *)
\* what a property lookup on {} finds on Object.prototype
ObjectPrototype(key) ==
  CASE key = "constructor" -> Fn("function Object() { [native code] }")
    [] key = "toString" -> Fn("function toString() { [native code] }")
    [] key = "valueOf" -> Fn("function valueOf() { [native code] }")
    [] key = "hasOwnProperty" -> Fn("function hasOwnProperty() { [native code] }")
    [] key = "__proto__" -> Fn("[object Object]")
    [] OTHER -> Undef

\* String(v), the property key a cell value becomes
PropertyKey(v) == IF v.t = "num" THEN ToString(v.n) ELSE v.s

\* counts[key]
GetProperty(counts, key) ==
  IF key \in DOMAIN counts THEN counts[key] ELSE ObjectPrototype(key)

\* counts[key] = value; assigning a primitive to __proto__ is ignored
SetProperty(counts, key, value) ==
  IF key = "__proto__" THEN counts
  ELSE [k \in DOMAIN counts \cup {key} |-> IF k = key THEN value ELSE counts[k]]

\* v + 1: addition on a number, concatenation on anything else
Plus1(v) == IF v.t = "num" THEN Num(v.n + 1) ELSE Str(v.s \o "1")

\* counts[key] = (counts[key] || 0) + 1
Increment(counts, cell) ==
  LET key == PropertyKey(cell)
  IN  SetProperty(counts, key, Plus1(Or(GetProperty(counts, key), Num(0))))

\* rows.forEach(row => { const k = row[col] || dflt; counts[k] = ... })
RECURSIVE CountBy(_, _, _, _)
CountBy(rws, col, dflt, counts) ==
  IF rws = <<>> THEN counts
  ELSE CountBy(Tail(rws), col, dflt, Increment(counts, Or(Cell(Head(rws), col), dflt)))

\* rows.reduce((sum, row) => sum + (parseFloat(row[5]) || 0), 0)
RECURSIVE SumPrices(_, _)
SumPrices(rws, sum) ==
  IF rws = <<>> THEN sum
  ELSE SumPrices(Tail(rws), sum + Or(parseFloat(Cell(Head(rws), 5)), Num(0)).n)

getStatisticsResult(ex, rs, fault) ==
  IF fault THEN Thrown(HostError)
  ELSE IF ~ex THEN [Returned("stats") EXCEPT !.stats = NoStats]
  ELSE LET rws == Slice1(getValues(rs))
           totalOrders == Len(rws)
           totalRevenue == SumPrices(rws, 0)
           avgPrice == IF totalOrders > 0 THEN [num |-> totalRevenue, den |-> totalOrders]
                       ELSE [num |-> 0, den |-> 1]
       IN  [Returned("stats") EXCEPT !.stats =
              [totalOrders |-> totalOrders, totalRevenue |-> totalRevenue,
               avgPrice |-> avgPrice,
               projectTypeCounts |-> CountBy(rws, 3, Str("Other"), EmptyObject),
               regionCounts |-> CountBy(rws, 4, Str("Unknown"), EmptyObject)]]

getStatistics ==
  \E fault \in BOOLEAN :
    /\ resp' = getStatisticsResult(exists, rows, fault)
    /\ lastOp' = "getStatistics"
    /\ req' = Invocation(NoReq, IF fault THEN "host" ELSE "none")
    /\ UNCHANGED <<exists, rows, created, pc, local, presp>>

(* ------------------------------ doOptions ----------------------------- *)
doOptions ==
  /\ resp' = Returned("empty")
  /\ lastOp' = "doOptions"
  /\ req' = NoReq
  /\ UNCHANGED <<exists, rows, created, pc, local, presp>>

(* ----------------------- overlapping doPost calls --------------------- *)
\* Two executions of the web app may run at once; each host call is atomic.
Procs == {1, 2}

NoLocal == [data |-> NoReq, lastRow |-> 0]

InFlight == Cardinality({p \in Procs : pc[p] \in {"getLastRow", "appendRow"}})

\* JSON.parse, the validation and getSheetByName
PostBegin(p) ==
  \E body \in BodyPool :
    LET r == doPostResult(exists, rows, body, FALSE)
    IN  /\ pc[p] \in {"idle", "done"}
        /\ created + InFlight < MaxCreates
        /\ local' = [local EXCEPT ![p] = [data |-> body, lastRow |-> 0]]
        /\ IF r.resp.kind = "success"
             THEN /\ pc' = [pc EXCEPT ![p] = "getLastRow"]
                  /\ presp' = [presp EXCEPT ![p] = NoResp]
             ELSE /\ pc' = [pc EXCEPT ![p] = "done"]
                  /\ presp' = [presp EXCEPT ![p] = r.resp]
        /\ UNCHANGED <<exists, rows, created, lastOp, req, resp>>

\* const lastRow = sheet.getLastRow()
PostGetLastRow(p) ==
  /\ pc[p] = "getLastRow"
  /\ local' = [local EXCEPT ![p].lastRow = getLastRow(rows)]
  /\ pc' = [pc EXCEPT ![p] = "appendRow"]
  /\ UNCHANGED <<exists, rows, created, lastOp, req, resp, presp>>

\* the ids made from the row count at the moment of the append
IdSource_AtAppend(readLastRow, currentLastRow) == currentLastRow

\* the row count the ids are made from: the one read before the append
IdSource(readLastRow, currentLastRow) == readLastRow

\* sheet.appendRow(rowData) and the success response
PostAppendRow(p) ==
  LET lastRow == IdSource(local[p].lastRow, getLastRow(rows))
  IN  /\ pc[p] = "appendRow"
      /\ rows' = appendRow(rows, rowData(local[p].data, lastRow))
      /\ presp' = [presp EXCEPT ![p] =
                     createSuccessResponse(generateId("ORD", lastRow), generateId("PRJ", lastRow))]
      /\ pc' = [pc EXCEPT ![p] = "done"]
      /\ created' = created + 1
      /\ UNCHANGED <<exists, lastOp, req, resp, local>>

(* -------------------------------- Init -------------------------------- *)
BlankRow == [i \in 1..7 |-> Str("")]

RowPool ==
  { headers,
    <<Str("ORD-001"), Str("PRJ-001"), Str("Site"), Str("Development"), Str("NA"),
      Num(15000), Str("2024-01-15")>>,
    <<Num(0), Str(""), Num(0), Str(""), Str("EU"), Str("8000"),
      Str("2024-01-15T10:30:00Z")>>,
    <<Str(""), Str("PRJ-002"), Str("Logo"), Str("Design"), Str(""), Str("12abc"),
      Str("garbage")>>,
    BlankRow }

HasContent(row) == \E i \in 1..Len(row) : row[i] # Str("")

\* the stores the deployment can start from: no sheet, or a sheet whose
\* rows end at a row with content
InitStores ==
  { <<>> } \cup
  UNION { { rs \in [1..n -> RowPool] : HasContent(rs[n]) } : n \in 1..MaxInitRows }

Init ==
  /\ exists \in BOOLEAN
  /\ rows \in InitStores
  /\ exists = FALSE => rows = <<>>
  /\ created = 0
  /\ lastOp = "init"
  /\ req = NoReq
  /\ resp = NoResp
  /\ pc = [p \in Procs |-> "idle"]
  /\ local = [p \in Procs |-> NoLocal]
  /\ presp = [p \in Procs |-> NoResp]

Next ==
  doGet \/ doPost \/ setupSheet \/ getDataByFilter \/ getStatistics \/ doOptions

Spec == Init /\ [][Next]_vars

\* a deployment that starts without the sheet or with an empty one
InitFresh == Init /\ rows = <<>>

SpecFresh == InitFresh /\ [][Next]_vars

\* overlapping creates against a sheet that is absent, empty, has its
\* header only, or was seeded by setupSheet
InitConc ==
  /\ Init
  /\ rows \in {<<>>, <<headers>>, setValues(<<headers>>, 2, sampleData)}

NextConc ==
  \/ \E p \in Procs : PostBegin(p)
  \/ \E p \in Procs : PostGetLastRow(p)
  \/ \E p \in Procs : PostAppendRow(p)
  \/ doGet

SpecConc == InitConc /\ [][NextConc]_vars

(* ============================== the claims ============================ *)
IsPrefix(a, b) == Len(a) <= Len(b) /\ SubSeq(b, 1, Len(a)) = a

\* a create field that is missing or empty
Absent(v) == v = Undef \/ v = Str("")

LacksRequired(b) ==
  \/ Absent(b.projectName)
  \/ Absent(b.projectType)
  \/ Absent(b.region)
  \/ Absent(b.price)
  \/ b.price = Num(0)

\* C1: a doPost whose body lacks projectName, projectType, region or price
\* (missing, empty, or price 0) answers exactly {error: "Missing required
\* fields"} and leaves the sheet as it was, whether or not the sheet exists.
C1_MissingFieldsRejected ==
  [][(lastOp' = "doPost" /\ req'.parse = "object" /\ LacksRequired(req'))
       => /\ resp' = [NoResp EXCEPT !.kind = "error", !.msg = "Missing required fields"]
          /\ rows' = rows
          /\ exists' = exists]_vars

C1_Witness ==
  /\ lastOp = "doPost"
  /\ req.parse = "object"
  /\ req.price = Num(0)
  /\ Truthy(req.projectName) /\ Truthy(req.projectType) /\ Truthy(req.region)
  /\ ~exists
  /\ resp.msg = "Missing required fields"

\* C2: a successful doPost followed at once by doGet lists, as its last
\* record, the input's projectName, projectType, region and price, under the
\* ids of the create response, which are ORD-NNN/PRJ-NNN of the record's
\* position among the data rows.
C2_CreateThenListRoundTrip ==
  [][(lastOp = "doPost" /\ resp.kind = "success" /\ lastOp' = "doGet" /\ resp'.kind = "list")
       => LET n == Len(resp'.list)
          IN  /\ n >= 1
              /\ resp'.list[n].projectName = req.projectName
              /\ resp'.list[n].projectType = req.projectType
              /\ resp'.list[n].region = req.region
              /\ resp'.list[n].price = req.price
              /\ resp'.list[n].orderId = resp.orderId
              /\ resp'.list[n].projectId = resp.projectId
              /\ resp.orderId = Str("ORD-" \o Pad3(n))
              /\ resp.projectId = Str("PRJ-" \o Pad3(n))]_vars

\* C3: starting without the sheet or with an empty one, and running the
\* functions one at a time, no two records of a doGet list share an orderId
\* and no two share a projectId.
C3_IdsUnique ==
  (lastOp = "doGet" /\ resp.kind = "list")
    => \A i, j \in 1..Len(resp.list) :
         i # j => /\ resp.list[i].orderId # resp.list[j].orderId
                  /\ resp.list[i].projectId # resp.list[j].projectId

C3_Witness ==
  /\ lastOp = "doGet"
  /\ resp.kind = "list"
  /\ Len(resp.list) = 5 + created
  /\ created >= 1

\* C4: setupSheet returning normally leaves the sheet existing; run without
\* the sheet or on an empty one it leaves exactly the header and the five
\* samples ORD-001..ORD-005; run on a sheet with a row it changes nothing; a
\* second run right after the first changes nothing.
C4_SetupIdempotent ==
  [][/\ (lastOp' = "setupSheet" /\ resp'.kind = "void")
          => /\ exists'
             /\ (~exists \/ Len(rows) = 0)
                  => /\ Len(rows') = 6
                     /\ rows'[1] = headers
                     /\ \A i \in 1..5 :
                          /\ rows'[i + 1] = sampleData[i]
                          /\ rows'[i + 1][1] = Str("ORD-00" \o ToString(i))
             /\ (exists /\ Len(rows) >= 1) => rows' = rows
     /\ (lastOp = "setupSheet" /\ resp.kind = "void" /\ lastOp' = "setupSheet")
          => (rows' = rows /\ exists' = exists)]_vars

C4_Witness ==
  /\ lastOp = "setupSheet"
  /\ resp.kind = "void"
  /\ exists
  /\ Len(rows) = 6
  /\ rows[1] = headers
  /\ rows[6][1] = Str("ORD-005")

\* C5: every step keeps the rows it found as a prefix of the rows it leaves;
\* doGet, doOptions, getDataByFilter, getStatistics and a doPost answering
\* {error} leave the sheet untouched; a successful doPost adds one row after
\* the last; only setupSheet creates the sheet.
C5_AppendOnly ==
  [][/\ IsPrefix(rows, rows')
     /\ exists => exists'
     /\ (lastOp' \in {"doGet", "doOptions", "getDataByFilter", "getStatistics"})
          => (rows' = rows /\ exists' = exists)
     /\ (lastOp' = "doPost" /\ resp'.kind = "error")
          => (rows' = rows /\ exists' = exists)
     /\ (lastOp' = "doPost" /\ resp'.kind = "success")
          => /\ Len(rows') = Len(rows) + 1
             /\ SubSeq(rows', 1, Len(rows)) = rows
             /\ rows'[Len(rows')][3] = req'.projectName
             /\ exists' = exists
     /\ (~exists /\ exists') => lastOp' = "setupSheet"]_vars

C5_Witness ==
  /\ lastOp = "doPost"
  /\ resp.kind = "success"
  /\ Len(rows) >= 3
  /\ rows[Len(rows)][1] = resp.orderId

\* C6: with the sheet present, doGet answers [] for a sheet of no rows or
\* one row, and otherwise one record per row after the first, in row order,
\* the first row never among them.
C6_ListSkipsHeader ==
  (lastOp = "doGet" /\ exists /\ req.fault = "none")
    => /\ resp.kind = "list"
       /\ Len(resp.list) = (IF Len(rows) <= 1 THEN 0 ELSE Len(rows) - 1)
       /\ \A i \in 1..Len(resp.list) :
            /\ Truthy(rows[i + 1][1]) => resp.list[i].orderId = rows[i + 1][1]
            /\ Truthy(rows[i + 1][3]) => resp.list[i].projectName = rows[i + 1][3]
            /\ Truthy(rows[i + 1][5]) => resp.list[i].region = rows[i + 1][5]

C6_Witness ==
  /\ lastOp = "doGet"
  /\ resp.kind = "list"
  /\ Len(rows) = 3
  /\ rows[1] # headers
  /\ Truthy(rows[1][3])
  /\ Len(resp.list) = 2
  /\ resp.list[1].projectName = rows[2][3]

NonBlank(v) == v # Undef /\ v # Str("")

PresentValue(v) == v.t \in {"str", "num"}

\* C7 as stated: with the sheet present doGet never answers {error} over cell
\* contents, and every field of the record at data position i is the raw
\* cell when the cell is non-blank (for price, also parseable), otherwise
\* ORD-i, PRJ-i, "Unnamed Project", "Other", "Unknown", 0, the current date
\* (also for an unparseable date cell).
C7_RawCellOrDefault ==
  (lastOp = "doGet" /\ exists /\ req.fault = "none")
    => /\ resp.kind = "list"
       /\ \A i \in 1..Len(resp.list) :
            LET row == rows[i + 1]
                r == resp.list[i]
            IN  /\ r.orderId = IF NonBlank(row[1]) THEN row[1] ELSE Str("ORD-" \o Pad3(i))
                /\ r.projectId = IF NonBlank(row[2]) THEN row[2] ELSE Str("PRJ-" \o Pad3(i))
                /\ r.projectName = IF NonBlank(row[3]) THEN row[3] ELSE Str("Unnamed Project")
                /\ r.projectType = IF NonBlank(row[4]) THEN row[4] ELSE Str("Other")
                /\ r.region = IF NonBlank(row[5]) THEN row[5] ELSE Str("Unknown")
                /\ r.price = IF NonBlank(row[6]) /\ parseFloat(row[6]).t = "num"
                               THEN row[6] ELSE Num(0)
                /\ r.date = IF NonBlank(row[7]) /\ IsoDay(row[7]).t = "str"
                              THEN row[7] ELSE Str(CurrentDate)

\* C7 amended: with the sheet present doGet never answers {error} over cell
\* contents and every field is present; the five text fields are the raw
\* cell when the cell is truthy (non-empty text, non-zero number), otherwise
\* the default; price is the number parseFloat reads from the cell, or 0
\* when that is NaN or 0; date is the UTC day of the parsed cell when the
\* cell is truthy and parses, otherwise the current date.
C7_TruthyCellOrDefault ==
  (lastOp = "doGet" /\ exists /\ req.fault = "none")
    => /\ resp.kind = "list"
       /\ \A i \in 1..Len(resp.list) :
            LET row == rows[i + 1]
                r == resp.list[i]
                parsed == parseFloat(row[6])
                day == IsoDay(row[7])
            IN  /\ \A f \in DOMAIN r : PresentValue(r[f])
                /\ r.orderId = IF Truthy(row[1]) THEN row[1] ELSE Str("ORD-" \o Pad3(i))
                /\ r.projectId = IF Truthy(row[2]) THEN row[2] ELSE Str("PRJ-" \o Pad3(i))
                /\ r.projectName = IF Truthy(row[3]) THEN row[3] ELSE Str("Unnamed Project")
                /\ r.projectType = IF Truthy(row[4]) THEN row[4] ELSE Str("Other")
                /\ r.region = IF Truthy(row[5]) THEN row[5] ELSE Str("Unknown")
                /\ r.price = IF parsed.t = "num" /\ parsed.n # 0 THEN Num(parsed.n) ELSE Num(0)
                /\ r.date = IF Truthy(row[7]) /\ day.t = "str" THEN day
                            ELSE Str(CurrentDate)

C7_Witness ==
  /\ lastOp = "doGet"
  /\ resp.kind = "list"
  /\ Len(resp.list) >= 1
  /\ rows[2][1] = Str("")
  /\ rows[2][5] = Str("")
  /\ rows[2][6] = Str("12abc")
  /\ rows[2][7] = Str("garbage")
  /\ resp.list[1].orderId = Str("ORD-001")
  /\ resp.list[1].region = Str("Unknown")
  /\ resp.list[1].price = Num(12)
  /\ resp.list[1].date = Str(CurrentDate)

\* C8: doGet and doPost always return a response, never throw; without the
\* sheet both answer {error} and neither create it nor append; a body that
\* does not parse, or a throwing host, gets {error} and no append; a doPost
\* response is {success, orderId, projectId, message} or {error}, not a mix.
C8_HandlersNeverThrow ==
  [][(lastOp' \in {"doGet", "doPost"})
       => /\ resp'.kind \in {"list", "success", "error"}
          /\ ~exists => (resp'.kind = "error" /\ ~exists' /\ rows' = rows)
          /\ (lastOp' = "doPost" /\ req'.parse \in {"syntax", "null"})
               => (resp'.kind = "error" /\ rows' = rows)
          /\ req'.fault # "none" => (resp'.kind = "error" /\ rows' = rows)
          /\ lastOp' = "doPost"
               => \/ /\ resp'.kind = "success"
                     /\ resp'.orderId.t = "str" /\ resp'.projectId.t = "str"
                     /\ resp'.msg = "Data added successfully"
                     /\ Len(rows') = Len(rows) + 1
                  \/ /\ resp'.kind = "error"
                     /\ resp'.msg # ""
                     /\ resp'.orderId = Undef /\ resp'.projectId = Undef
                     /\ rows' = rows]_vars

C8_Witness ==
  /\ lastOp = "doPost"
  /\ exists
  /\ req.parse = "object"
  /\ req.fault = "host"
  /\ ~LacksRequired(req)
  /\ resp.kind = "error"
  /\ resp.msg = "Failed to add data: " \o HostError

\* the rows after the first
DataRows == IF Len(rows) >= 1 THEN SubSeq(rows, 2, Len(rows)) ELSE <<>>

PriceOrZero(cell) ==
  LET parsed == parseFloat(cell) IN IF parsed.t = "num" THEN parsed.n ELSE 0

RECURSIVE Revenue(_, _)
Revenue(data, n) == IF n = 0 THEN 0 ELSE Revenue(data, n - 1) + PriceOrZero(data[n][6])

Occurrences(data, col, dflt) ==
  [k \in { PropertyKey(IF Absent(data[i][col]) THEN dflt ELSE data[i][col]) : i \in 1..Len(data) }
     |-> Num(Cardinality({ i \in 1..Len(data) :
                             PropertyKey(IF Absent(data[i][col]) THEN dflt ELSE data[i][col]) = k }))]

\* C9: getStatistics returns totalOrders = the number of data rows,
\* totalRevenue = the sum of their parsed prices (unparseable as 0), avgPrice
\* = totalRevenue/totalOrders or 0 without data rows, and the occurrence
\* counts per projectType (blank as "Other") and per region (blank as
\* "Unknown"); all zero and empty without the sheet or without data rows.
C9_Statistics ==
  (lastOp = "getStatistics" /\ req.fault = "none")
    => LET data == IF exists THEN DataRows ELSE <<>>
           st == resp.stats
       IN  /\ resp.kind = "stats"
           /\ st.totalOrders = Len(data)
           /\ st.totalRevenue = Revenue(data, Len(data))
           /\ IF Len(data) = 0 THEN st.avgPrice = [num |-> 0, den |-> 1]
              ELSE /\ st.avgPrice.den > 0
                   /\ st.avgPrice.num * Len(data) = st.totalRevenue * st.avgPrice.den
           /\ st.projectTypeCounts = Occurrences(data, 4, Str("Other"))
           /\ st.regionCounts = Occurrences(data, 5, Str("Unknown"))
           /\ Len(data) = 0 => st = NoStats

\* C10: when two valid doPost executions both read the row count before
\* either appends, both rows are appended (the sheet grows by exactly two
\* rows, one per call) and both rows and both responses carry the same
\* orderId and the same projectId.
C10_OverlappingCreatesShareId ==
  \A p, q \in Procs :
    (/\ p # q
     /\ pc[p] = "done" /\ pc[q] = "done"
     /\ presp[p].kind = "success" /\ presp[q].kind = "success"
     /\ local[p].lastRow = local[q].lastRow)
      => LET L == local[p].lastRow
             Mine(r, b) == /\ rows[r][3] = b.projectName
                           /\ rows[r][4] = b.projectType
                           /\ rows[r][5] = b.region
                           /\ rows[r][6] = b.price
         IN  /\ Len(rows) = L + 2
             /\ presp[p].orderId = Str("ORD-" \o Pad3(L))
             /\ presp[p].projectId = Str("PRJ-" \o Pad3(L))
             /\ presp[q].orderId = presp[p].orderId
             /\ presp[q].projectId = presp[p].projectId
             /\ \A r \in {L + 1, L + 2} :
                  rows[r][1] = presp[p].orderId /\ rows[r][2] = presp[p].projectId
             /\ \/ Mine(L + 1, local[p].data) /\ Mine(L + 2, local[q].data)
                \/ Mine(L + 1, local[q].data) /\ Mine(L + 2, local[p].data)

C10_Witness ==
  /\ pc[1] = "done" /\ pc[2] = "done"
  /\ presp[1].kind = "success" /\ presp[2].kind = "success"
  /\ local[1].lastRow = local[2].lastRow
  /\ local[1].data # local[2].data
  /\ lastOp = "doGet"
  /\ resp.kind = "list"
  /\ \E i, j \in 1..Len(resp.list) :
       i # j /\ resp.list[i].orderId = resp.list[j].orderId
====
